---- MODULE Spec2Model ----
(***************************************************************************)
(* Longitudinal vehicle model of Course_1_Module_4: the class Vehicle      *)
(* (__init__, reset, step) and the notebook cells that drive it.           *)
(*                                                                         *)
(* Numbers.  The program computes in IEEE doubles; here a real is a        *)
(* fixed-point integer, rounded to nearest after every operation as a      *)
(* double operation is:                                                    *)
(*   - state fields x, v, a, w_e, w_e_dot, the inputs throttle and alpha,  *)
(*     the slip ratio and torques count millionths (unit KU);              *)
(*   - parameters, forces and squared speeds count ten-thousandths (PU).   *)
(* The three non-finite doubles are the reserved integers PosInf, NegInf   *)
(* and NaN, and every operation treats them as IEEE 754 does.              *)
(***************************************************************************)
EXTENDS Integers, Sequences, FiniteSets, TLC

VARIABLES
    model,      \* the Vehicle object: its 18 attributes, and which hold numpy values
    raised,     \* TRUE once a call has ended in a Python exception
    last,       \* the last call made on model, with its arguments
    pre,        \* model as it was before the last call
    n,          \* calls made so far
    fresh,      \* a second Vehicle, constructed when model was last reset
    resets,     \* calls of reset so far
    nb          \* the running notebook cell: its globals and its loop index

vars == <<model, raised, last, pre, n, fresh, resets, nb>>

----------------------------------------------------------------------------
(* Fixed-point reals *)

KU == 10^6
PU == 10^4

PosInf == 2^30 + (2^30 - 1)
NegInf == -PosInf
NaN == NegInf - 1

IsNaN(a) == a = NaN
IsInf(a) == a = PosInf \/ a = NegInf
IsFin(a) == ~IsNaN(a) /\ ~IsInf(a)

Sgn(a) == IF a > 0 THEN 1 ELSE IF a < 0 THEN -1 ELSE 0

\* a*b = Q*d + R with 0 <= R < d, for b >= 0, without leaving 32 bits:
\* b is taken K digits at a time, K*d <= PosInf.
RECURSIVE MulQR(_, _, _, _)
MulQR(a, b, d, K) ==
    IF b = 0 THEN <<0, 0>>
    ELSE LET h  == MulQR(a, b \div K, d, K)
             b0 == b % K
             t1 == h[2] * K
             t2 == (a % d) * b0
             r  == (t1 % d) + (t2 % d)
         IN  << h[1] * K + (t1 \div d) + (a \div d) * b0 + (t2 \div d) + (r \div d),
                r % d >>

\* a*b/d rounded to nearest, for finite a, b and 0 < d <= 2^30.
MulDiv(a, b, d) ==
    LET qr == IF b >= 0 THEN MulQR(a, b, d, PosInf \div d)
                        ELSE MulQR(-a, -b, d, PosInf \div d)
    IN  qr[1] + (IF 2 * qr[2] >= d THEN 1 ELSE 0)

FNeg(a) == IF IsNaN(a) THEN NaN ELSE -a

FAdd(a, b) ==
    IF IsNaN(a) \/ IsNaN(b) THEN NaN
    ELSE IF IsInf(a) THEN (IF IsInf(b) /\ b # a THEN NaN ELSE a)
    ELSE IF IsInf(b) THEN b
    ELSE a + b

FSub(a, b) == FAdd(a, FNeg(b))

\* a*b/d for a scale d > 0: the product of two reals, in the unit wanted.
FMul(a, b, d) ==
    IF IsNaN(a) \/ IsNaN(b) THEN NaN
    ELSE IF IsInf(a) \/ IsInf(b)
         THEN (IF a = 0 \/ b = 0 THEN NaN
               ELSE IF Sgn(a) = Sgn(b) THEN PosInf ELSE NegInf)
    ELSE MulDiv(a, b, d)

\* a*k/b for a scale k > 0: the quotient of two reals, numpy's division:
\* x/0 is +inf, -inf or nan with a warning, never an exception.
FDiv(a, b, k) ==
    IF IsNaN(a) \/ IsNaN(b) THEN NaN
    ELSE IF b = 0 THEN (IF a = 0 THEN NaN ELSE IF a > 0 THEN PosInf ELSE NegInf)
    ELSE IF IsInf(b) THEN (IF IsInf(a) THEN NaN ELSE 0)
    ELSE IF IsInf(a) THEN (IF Sgn(a) = Sgn(b) THEN PosInf ELSE NegInf)
    ELSE IF b > 0 THEN MulDiv(a, k, b) ELSE MulDiv(-a, k, -b)

\* a >= b on doubles: false when either is nan.
FGe(a, b) == ~IsNaN(a) /\ ~IsNaN(b) /\ a >= b

\* np.sin, by its Taylor polynomial to x^7 (|x| <= 1/2 here); nan off the reals.
Sin(al) ==
    IF ~IsFin(al) THEN NaN
    ELSE LET x2 == MulDiv(al, al, KU)
             x3 == MulDiv(x2, al, KU)
             x5 == MulDiv(x3, x2, KU)
             x7 == MulDiv(x5, x2, KU)
         IN  al - MulDiv(x3, 1, 6) + MulDiv(x5, 1, 120) - MulDiv(x7, 1, 5040)

\* np.arctan, by its Taylor polynomial to y^7 (|y| <= 1/10 here).
ArcTan(y) ==
    IF ~IsFin(y) THEN NaN
    ELSE LET y2 == MulDiv(y, y, KU)
             y3 == MulDiv(y2, y, KU)
             y5 == MulDiv(y3, y2, KU)
             y7 == MulDiv(y5, y2, KU)
         IN  y - MulDiv(y3, 1, 3) + MulDiv(y5, 1, 5) - MulDiv(y7, 1, 7)

\* np.sqrt of a whole number N <= 214369, in millionths: the largest r with
\* r*r < N*10^12 by bisection, or the exact root of a perfect square.
SqBelow(r, N) == MulQR(r, r, KU * (KU \div PU), PosInf \div (KU * (KU \div PU)))[1] < N * PU

RECURSIVE SqrtIn(_, _, _)
SqrtIn(N, lo, hi) ==
    IF hi - lo <= 1 THEN lo
    ELSE LET mid == (lo + hi) \div 2
         IN  IF SqBelow(mid, N) THEN SqrtIn(N, mid, hi) ELSE SqrtIn(N, lo, mid)

Sqrt(N) ==
    IF N = 0 THEN 0
    ELSE LET r == SqrtIn(N, 0, 463 * KU)
         IN  IF MulQR(r + 1, r + 1, KU * (KU \div PU), PosInf \div (KU * (KU \div PU)))
                  = <<N * PU, 0>>
             THEN r + 1 ELSE r

FLe(a, b) == FGe(b, a)
FLt(a, b) == ~IsNaN(a) /\ ~IsNaN(b) /\ a < b
FGt(a, b) == FLt(b, a)

----------------------------------------------------------------------------
(* class Vehicle *)

StateFields == {"x", "v", "a", "w_e", "w_e_dot"}

\* Vehicle.__init__: the parameters (unit PU), the state (unit KU), the
\* sample time (unit PU).  Every attribute is a Python int or float.
NewVehicle ==
    [ a_0 |-> 400 * PU, a_1 |-> PU \div 10, a_2 |-> -2,
      GR |-> 35 * (PU \div 100), r_e |-> 3 * (PU \div 10),
      J_e |-> 10 * PU, m |-> 2000 * PU, g |-> 981 * (PU \div 100),
      c_a |-> 136 * (PU \div 100), c_r1 |-> PU \div 100,
      c |-> 10000 * PU, F_max |-> 10000 * PU,
      x |-> 0, v |-> 5 * KU, a |-> 0, w_e |-> 100 * KU, w_e_dot |-> 0,
      sample_time |-> PU \div 100,
      np |-> {} ]

\* reset with the last assignment, self.w_e_dot = 0, left out.
ResetFnKeepsWdot(self) ==
    [self EXCEPT !.x = 0, !.v = 5 * KU, !.a = 0, !.w_e = 100 * KU,
                 !.np = self.np \ {"x", "v", "a", "w_e"}]

\* reset with the first assignment, self.x = 0, left out.
ResetFnKeepsX(self) ==
    [self EXCEPT !.v = 5 * KU, !.a = 0, !.w_e = 100 * KU, !.w_e_dot = 0,
                 !.np = self.np \ {"v", "a", "w_e", "w_e_dot"}]

\* Vehicle.reset
ResetFn(self) ==
    [self EXCEPT !.x = 0, !.v = 5 * KU, !.a = 0, !.w_e = 100 * KU, !.w_e_dot = 0,
                 !.np = self.np \ StateFields]

\* The slip ratio with the operands of the difference exchanged.
SlipRatioSwapped(self) ==
    FDiv(FSub(self.v, FMul(FMul(self.GR, self.w_e, PU), self.r_e, PU)), self.v, KU)

\* The wheel speed GR*w_e*r_e, the slip ratio and the tire force of step.
SlipRatio(self) ==
    FDiv(FSub(FMul(FMul(self.GR, self.w_e, PU), self.r_e, PU), self.v), self.v, KU)

\* The tire force with the test against F_max left out.
TireForceNoClamp(self) == FMul(self.c, SlipRatio(self), KU)

\* The tire force limited on both sides, to [-F_max, F_max].
TireForceSymmetric(self) ==
    LET F_x == FMul(self.c, SlipRatio(self), KU)
    IN  IF FGe(F_x, self.F_max) THEN self.F_max
        ELSE IF FLe(F_x, FNeg(self.F_max)) THEN FNeg(self.F_max)
        ELSE F_x

TireForce(self) ==
    LET F_x == FMul(self.c, SlipRatio(self), KU)
    IN  IF FGe(F_x, self.F_max) THEN self.F_max ELSE F_x

\* The load without the gravitational force F_g.
LoadForceNoGravity(self, alpha) ==
    LET R_x    == FMul(self.c_r1, self.v, KU)
        F_aero == FMul(self.c_a, FMul(self.v, self.v, KU * (KU \div PU)), PU)
    IN  FAdd(F_aero, R_x)

\* The load without the rolling resistance R_x.
LoadForceNoRolling(self, alpha) ==
    LET F_g    == FMul(FMul(self.m, self.g, PU), Sin(alpha), KU)
        F_aero == FMul(self.c_a, FMul(self.v, self.v, KU * (KU \div PU)), PU)
    IN  FAdd(F_aero, F_g)

\* F_load = F_aero + R_x + F_g
LoadForce(self, alpha) ==
    LET F_g    == FMul(FMul(self.m, self.g, PU), Sin(alpha), KU)
        R_x    == FMul(self.c_r1, self.v, KU)
        F_aero == FMul(self.c_a, FMul(self.v, self.v, KU * (KU \div PU)), PU)
    IN  FAdd(FAdd(F_aero, R_x), F_g)

\* The torque map without its quadratic term a_2*w_e**2.
EngineTorqueLinear(self, throttle) ==
    FMul(throttle, FAdd(self.a_0, FMul(self.a_1, self.w_e, KU)), PU)

\* The torque with the throttle first clamped to [0, 1].
EngineTorqueClamped(self, throttle) ==
    FMul(IF FGt(throttle, KU) THEN KU ELSE IF FLt(throttle, 0) THEN 0 ELSE throttle,
         FAdd(FAdd(self.a_0, FMul(self.a_1, self.w_e, KU)),
              FMul(self.a_2, FMul(self.w_e, self.w_e, KU * (KU \div PU)), PU)),
         PU)

EngineTorque(self, throttle) ==
    FMul(throttle,
         FAdd(FAdd(self.a_0, FMul(self.a_1, self.w_e, KU)),
              FMul(self.a_2, FMul(self.w_e, self.w_e, KU * (KU \div PU)), PU)),
         PU)

\* The slip division raising on every zero velocity, as Python's own does.
StepRaisesOnZero(self) == self.v = 0

\* The slip division is Python's, which raises ZeroDivisionError, when
\* neither operand is a numpy value.
StepRaises(self) == self.v = 0 /\ "v" \notin self.np /\ "w_e" \notin self.np

\* Vehicle.step, when it raises: only the position was written.
StepAbort(self) ==
    [self EXCEPT !.x = FAdd(self.x, FMul(self.v, self.sample_time, PU))]

\* step keeping the tire force in self.c instead of a local.
StepFnStoresForce(self, throttle, alpha) ==
    LET F_x    == TireForce(self)
        F_load == LoadForce(self, alpha)
        T_e    == EngineTorque(self, throttle)
    IN  [self EXCEPT
           !.x = FAdd(self.x, FMul(self.v, self.sample_time, PU)),
           !.v = FAdd(self.v, FMul(self.a, self.sample_time, PU)),
           !.a = FDiv(FSub(F_x, F_load), self.m, KU),
           !.c = F_x,
           !.w_e = FAdd(self.w_e, FMul(self.w_e_dot, self.sample_time, PU)),
           !.w_e_dot = FDiv(FSub(T_e, FMul(FMul(self.GR, self.r_e, PU), F_load,
                                           (PU * PU) \div KU)),
                            self.J_e, PU),
           !.np = self.np \cup {"a", "w_e_dot", "c"}
                    \cup (IF "v" \in self.np THEN {"x"} ELSE {})
                    \cup (IF "a" \in self.np THEN {"v"} ELSE {})
                    \cup (IF "w_e_dot" \in self.np THEN {"w_e"} ELSE {}) ]

\* step integrating the velocity with the acceleration it has just computed.
StepFnIntegratesLast(self, throttle, alpha) ==
    LET F_x    == TireForce(self)
        F_load == LoadForce(self, alpha)
        T_e    == EngineTorque(self, throttle)
        a_new  == FDiv(FSub(F_x, F_load), self.m, KU)
    IN  [self EXCEPT
           !.x = FAdd(self.x, FMul(self.v, self.sample_time, PU)),
           !.v = FAdd(self.v, FMul(a_new, self.sample_time, PU)),
           !.a = a_new,
           !.w_e = FAdd(self.w_e, FMul(self.w_e_dot, self.sample_time, PU)),
           !.w_e_dot = FDiv(FSub(T_e, FMul(FMul(self.GR, self.r_e, PU), F_load,
                                           (PU * PU) \div KU)),
                            self.J_e, PU),
           !.np = self.np \cup {"a", "w_e_dot", "v"}
                    \cup (IF "v" \in self.np THEN {"x"} ELSE {})
                    \cup (IF "w_e_dot" \in self.np THEN {"w_e"} ELSE {}) ]

\* step evaluating the forces and the torque at the velocity and engine
\* speed it has just integrated.
StepFnIntegrateFirst(self, throttle, alpha) ==
    LET cur    == [self EXCEPT
                     !.v = FAdd(self.v, FMul(self.a, self.sample_time, PU)),
                     !.w_e = FAdd(self.w_e, FMul(self.w_e_dot, self.sample_time, PU))]
        F_x    == TireForce(cur)
        F_load == LoadForce(cur, alpha)
        T_e    == EngineTorque(cur, throttle)
    IN  [self EXCEPT
           !.x = FAdd(self.x, FMul(self.v, self.sample_time, PU)),
           !.v = cur.v,
           !.a = FDiv(FSub(F_x, F_load), self.m, KU),
           !.w_e = cur.w_e,
           !.w_e_dot = FDiv(FSub(T_e, FMul(FMul(self.GR, self.r_e, PU), F_load,
                                           (PU * PU) \div KU)),
                            self.J_e, PU),
           !.np = self.np \cup {"a", "w_e_dot"}
                    \cup (IF "v" \in self.np THEN {"x"} ELSE {})
                    \cup (IF "a" \in self.np THEN {"v"} ELSE {})
                    \cup (IF "w_e_dot" \in self.np THEN {"w_e"} ELSE {}) ]

\* step integrating only: the new a and w_e_dot are computed and dropped.
StepFnKeepsDerivatives(self, throttle, alpha) ==
    [self EXCEPT
       !.x = FAdd(self.x, FMul(self.v, self.sample_time, PU)),
       !.v = FAdd(self.v, FMul(self.a, self.sample_time, PU)),
       !.w_e = FAdd(self.w_e, FMul(self.w_e_dot, self.sample_time, PU)),
       !.np = self.np
                \cup (IF "v" \in self.np THEN {"x"} ELSE {})
                \cup (IF "a" \in self.np THEN {"v"} ELSE {})
                \cup (IF "w_e_dot" \in self.np THEN {"w_e"} ELSE {}) ]

\* step with the position updated after the velocity, from the new v.
StepFnPositionLast(self, throttle, alpha) ==
    LET F_x    == TireForce(self)
        F_load == LoadForce(self, alpha)
        T_e    == EngineTorque(self, throttle)
        v_new  == FAdd(self.v, FMul(self.a, self.sample_time, PU))
    IN  [self EXCEPT
           !.x = FAdd(self.x, FMul(v_new, self.sample_time, PU)),
           !.v = v_new,
           !.a = FDiv(FSub(F_x, F_load), self.m, KU),
           !.w_e = FAdd(self.w_e, FMul(self.w_e_dot, self.sample_time, PU)),
           !.w_e_dot = FDiv(FSub(T_e, FMul(FMul(self.GR, self.r_e, PU), F_load,
                                           (PU * PU) \div KU)),
                            self.J_e, PU),
           !.np = self.np \cup {"a", "w_e_dot"}
                    \cup (IF "a" \in self.np THEN {"v", "x"} ELSE {})
                    \cup (IF "w_e_dot" \in self.np THEN {"w_e"} ELSE {}) ]

\* Vehicle.step, when it returns.
StepFn(self, throttle, alpha) ==
    LET F_x    == TireForce(self)
        F_load == LoadForce(self, alpha)
        T_e    == EngineTorque(self, throttle)
    IN  [self EXCEPT
           !.x = FAdd(self.x, FMul(self.v, self.sample_time, PU)),
           !.v = FAdd(self.v, FMul(self.a, self.sample_time, PU)),
           !.a = FDiv(FSub(F_x, F_load), self.m, KU),
           !.w_e = FAdd(self.w_e, FMul(self.w_e_dot, self.sample_time, PU)),
           !.w_e_dot = FDiv(FSub(T_e, FMul(FMul(self.GR, self.r_e, PU), F_load,
                                           (PU * PU) \div KU)),
                            self.J_e, PU),
           !.np = self.np \cup {"a", "w_e_dot"}
                    \cup (IF "v" \in self.np THEN {"x"} ELSE {})
                    \cup (IF "a" \in self.np THEN {"v"} ELSE {})
                    \cup (IF "w_e_dot" \in self.np THEN {"w_e"} ELSE {}) ]

----------------------------------------------------------------------------
(* Calls on the object *)

MaxCalls == 4

\* The arguments tried: throttle 0, 0.2 and 1.5 (outside [0,1]); a level
\* road and the first ramp's angle.
Throttles == {0, 2 * (KU \div 10), 15 * (KU \div 10)}
Inclines == {0, ArcTan(MulDiv(3, KU, 60))}

\* No cell is running: the object is driven call by call.
Idle == [cell |-> "none", pc |-> "done", i |-> 0, throttle |-> 0, alpha |-> 0,
         sample |-> 0, printed |-> NaN]

\* One call of step on obj: what it leaves, and whether it raised.
CallStep(obj, throttle, alpha) ==
    IF StepRaises(obj) THEN StepAbort(obj) ELSE StepFn(obj, throttle, alpha)

\* model.step(throttle, alpha)
DoStep(throttle, alpha) ==
    /\ ~raised
    /\ model' = CallStep(model, throttle, alpha)
    /\ raised' = StepRaises(model)
    /\ last' = [op |-> "step", throttle |-> throttle, alpha |-> alpha]
    /\ pre' = model
    /\ n' = n + 1

\* model.reset()
DoReset ==
    /\ ~raised
    /\ model' = ResetFn(model)
    /\ raised' = FALSE
    /\ last' = [op |-> "reset", throttle |-> 0, alpha |-> 0]
    /\ pre' = model
    /\ n' = n + 1

Init ==
    /\ model = NewVehicle
    /\ raised = FALSE
    /\ last = [op |-> "init", throttle |-> 0, alpha |-> 0]
    /\ pre = NewVehicle
    /\ n = 0
    /\ fresh = NewVehicle
    /\ resets = 0
    /\ nb = Idle

Step(throttle, alpha) ==
    /\ n < MaxCalls
    /\ DoStep(throttle, alpha)
    /\ fresh' = CallStep(fresh, throttle, alpha)
    /\ UNCHANGED <<resets, nb>>

Reset ==
    /\ n < MaxCalls
    /\ DoReset
    /\ fresh' = NewVehicle
    /\ resets' = resets + 1
    /\ UNCHANGED nb

Next ==
    \/ \E throttle \in Throttles, alpha \in Inclines : Step(throttle, alpha)
    \/ Reset

Spec == Init /\ [][Next]_vars

----------------------------------------------------------------------------
(* step as a function of its pre-state: the object starts anywhere on a     *)
(* grid of states that earlier calls can have left (every state field a     *)
(* numpy value, as after two steps), among them v = 0, a slip ratio of      *)
(* exactly 1 and a negative engine speed, with the tire force limit as      *)
(* constructed or halved by the caller.                                     *)

MaxGridCalls == 4

GridV == {0, KU, 5 * KU, 525 * (KU \div 100), 7 * KU, 105 * (KU \div 10), 21 * KU}
GridW == {-50 * KU, 0, 100 * KU, 200 * KU}
GridA == {0, -2 * KU}
GridFmax == {10000 * PU, 5000 * PU}
GridThrottles == {2 * (KU \div 10)}

GridInit ==
    /\ \E v0 \in GridV, w0 \in GridW, a0 \in GridA, F0 \in GridFmax :
         model = [NewVehicle EXCEPT !.v = v0, !.w_e = w0, !.a = a0, !.F_max = F0,
                                    !.np = StateFields]
    /\ raised = FALSE
    /\ last = [op |-> "init", throttle |-> 0, alpha |-> 0]
    /\ pre = model
    /\ n = 0
    /\ fresh = NewVehicle
    /\ resets = 0
    /\ nb = Idle

\* The fixed-point forces reach 214748: step is followed from the states
\* whose slip ratio is at most MaxSlip in size, or is not finite.
MaxSlip == 20

Abs(a) == IF a < 0 THEN -a ELSE a

SlipInRange(self) ==
    LET num == FSub(FMul(FMul(self.GR, self.w_e, PU), self.r_e, PU), self.v)
    IN  IF ~IsFin(num) THEN TRUE
        ELSE IF ~IsFin(self.v) THEN TRUE
        ELSE IF self.v = 0 THEN TRUE
        ELSE Abs(num) <= MaxSlip * Abs(self.v)

GridStep(throttle, alpha) ==
    /\ n < MaxGridCalls
    /\ SlipInRange(model)
    /\ DoStep(throttle, alpha)
    /\ UNCHANGED <<fresh, resets, nb>>

GridNext == \E throttle \in GridThrottles, alpha \in Inclines : GridStep(throttle, alpha)

SpecGrid == GridInit /\ [][GridNext]_vars

----------------------------------------------------------------------------
(* The notebook's cells.  nb holds the cell's globals: throttle and alpha,  *)
(* the loop index i, the one element of the recorded array that the cell    *)
(* prints (sample, zero as np.zeros_like leaves it) and what was printed.   *)

\* len(np.arange(0, time_end, sample_time)) for a whole number of seconds,
\* and its element i, with the global sample_time = 0.01.
sample_time == PU \div 100
ArangeLen(time_end) == (time_end * PU) \div sample_time
TData(i) == MulDiv(i, sample_time * (KU \div PU), 1)

\* A model that earlier cells have used: reset must wipe what they left.
UsedModels ==
    { NewVehicle,
      StepFn(NewVehicle, 2 * (KU \div 10), 0),
      StepFn(StepFn(NewVehicle, 2 * (KU \div 10), 0), 2 * (KU \div 10), 0) }

CellInit(cell, pc, throttle, alpha) ==
    /\ raised = FALSE
    /\ last = [op |-> "init", throttle |-> 0, alpha |-> 0]
    /\ pre = model
    /\ n = 0
    /\ fresh = NewVehicle
    /\ resets = 0
    /\ nb = [cell |-> cell, pc |-> pc, i |-> 0, throttle |-> throttle,
             alpha |-> alpha, sample |-> 0, printed |-> NaN]

\* The constant-throttle cell: 100 s at throttle 0.2 on a level road,
\* recording v before each step; it prints v_data[8000].
ConstEnd == 100
ConstIndex == 8000

ConstInit ==
    /\ model = NewVehicle
    /\ CellInit("const", "loop", 2 * (KU \div 10), 0)

ConstIter ==
    /\ nb.cell = "const" /\ nb.pc = "loop" /\ nb.i < ArangeLen(ConstEnd)
    /\ DoStep(nb.throttle, nb.alpha)
    /\ nb' = [nb EXCEPT !.i = nb.i + 1,
                        !.sample = IF nb.i = ConstIndex THEN model.v ELSE nb.sample]
    /\ UNCHANGED <<fresh, resets>>

ConstPrint ==
    /\ nb.cell = "const" /\ nb.pc = "loop" /\ nb.i = ArangeLen(ConstEnd)
    /\ ~raised
    /\ nb' = [nb EXCEPT !.pc = "done", !.printed = nb.sample]
    /\ UNCHANGED <<model, raised, last, pre, n, fresh, resets>>

ConstNext == ConstIter \/ ConstPrint

SpecConst == ConstInit /\ [][ConstNext]_vars

\* The free-test cell: reset, then 30 s of step(0, 0).
FreeEnd == 30

FreeInit ==
    /\ model \in UsedModels
    /\ CellInit("free", "reset", 2 * (KU \div 10), 0)

FreeReset ==
    /\ nb.cell = "free" /\ nb.pc = "reset"
    /\ DoReset
    /\ nb' = [nb EXCEPT !.pc = "loop"]
    /\ UNCHANGED <<fresh, resets>>

FreeIter ==
    /\ nb.cell = "free" /\ nb.pc = "loop" /\ nb.i < ArangeLen(FreeEnd)
    /\ DoStep(0, 0)
    /\ nb' = [nb EXCEPT !.i = nb.i + 1]
    /\ UNCHANGED <<fresh, resets>>

FreeNext == FreeReset \/ FreeIter

SpecFree == FreeInit /\ [][FreeNext]_vars

\* The ramp cell: 20 s over the two ramps, the throttle a function of time,
\* the incline a function of position; it prints throttle_data[100].
RampEnd == 20
RampIndex == 100
alpha_1 == ArcTan(MulDiv(3, KU, 60))
alpha_2 == ArcTan(MulDiv(12 - 3, KU, 90))

\* The throttle profile with the first ramp spread over the 15 s to the plateau's end.
RampThrottleSlow(t, old) ==
    IF FLe(t, 5 * KU)
      THEN FAdd(2 * (KU \div 10),
                FMul(FDiv(FSub(5 * (KU \div 10), 2 * (KU \div 10)), 15 * KU, KU), t, KU))
    ELSE IF FGt(t, 5 * KU) /\ FLe(t, 15 * KU)
      THEN 5 * (KU \div 10)
    ELSE IF FGt(t, 15 * KU)
      THEN FAdd(5 * (KU \div 10),
                FMul(FDiv(FSub(0, 5 * (KU \div 10)), 5 * KU, KU), FSub(t, 15 * KU), KU))
    ELSE old

\* The throttle profile; old is the global throttle, kept when no branch is taken.
RampThrottle(t, old) ==
    IF FLe(t, 5 * KU)
      THEN FAdd(2 * (KU \div 10),
                FMul(FDiv(FSub(5 * (KU \div 10), 2 * (KU \div 10)), 5 * KU, KU), t, KU))
    ELSE IF FGt(t, 5 * KU) /\ FLe(t, 15 * KU)
      THEN 5 * (KU \div 10)
    ELSE IF FGt(t, 15 * KU)
      THEN FAdd(5 * (KU \div 10),
                FMul(FDiv(FSub(0, 5 * (KU \div 10)), 5 * KU, KU), FSub(t, 15 * KU), KU))
    ELSE old

\* The lengths of the two ramps: np.sqrt(60**2+3**2) and np.sqrt(90**2+9**2).
Ramp1 == Sqrt(60 * 60 + 3 * 3)
Ramp2 == Sqrt(90 * 90 + 9 * 9)

\* The incline profile without its last branch: past the ramps alpha stays.
RampAlphaNoFlat(x, old) ==
    IF FLe(x, Ramp1)
      THEN alpha_1
    ELSE IF FGt(x, Ramp1) /\ FLt(x, FAdd(Ramp1, Ramp2))
      THEN alpha_2
    ELSE old

\* The incline profile; old is the global alpha, kept when no branch is taken.
RampAlpha(x, old) ==
    IF FLe(x, Ramp1)
      THEN alpha_1
    ELSE IF FGt(x, Ramp1) /\ FLt(x, FAdd(Ramp1, Ramp2))
      THEN alpha_2
    ELSE IF FGt(x, 150 * KU)
      THEN 0
    ELSE old

RampInit ==
    /\ model \in UsedModels
    /\ CellInit("ramp", "reset", 2 * (KU \div 10), 0)

RampReset ==
    /\ nb.cell = "ramp" /\ nb.pc = "reset"
    /\ DoReset
    /\ nb' = [nb EXCEPT !.pc = "loop"]
    /\ UNCHANGED <<fresh, resets>>

RampIter ==
    /\ nb.cell = "ramp" /\ nb.pc = "loop" /\ nb.i < ArangeLen(RampEnd)
    /\ LET throttle == RampThrottle(TData(nb.i), nb.throttle)
           alpha    == RampAlpha(model.x, nb.alpha)
       IN  /\ DoStep(throttle, alpha)
           /\ nb' = [nb EXCEPT !.i = nb.i + 1, !.throttle = throttle, !.alpha = alpha,
                               !.sample = IF nb.i = RampIndex THEN throttle
                                          ELSE nb.sample]
    /\ UNCHANGED <<fresh, resets>>

RampPrint ==
    /\ nb.cell = "ramp" /\ nb.pc = "loop" /\ nb.i = ArangeLen(RampEnd)
    /\ ~raised
    /\ nb' = [nb EXCEPT !.pc = "done", !.printed = nb.sample]
    /\ UNCHANGED <<model, raised, last, pre, n, fresh, resets>>

RampNext == RampReset \/ RampIter \/ RampPrint

SpecRamp == RampInit /\ [][RampNext]_vars

\* A run as the constant-throttle cell makes it, for other inputs: a new
\* Vehicle stepped with one throttle of [0, 1] and one incline (a level road,
\* the steeper ramp's angle, or 1 rad), with at most one reset on the way.
\* nb.i counts the steps since construction or the reset.
MaxClimb == 90

ClimbThrottles == {0, 5 * (KU \div 10), KU}
ClimbInclines == {0, alpha_2, KU}

ClimbInit ==
    /\ model = NewVehicle
    /\ \E throttle \in ClimbThrottles, alpha \in ClimbInclines :
          CellInit("climb", "loop", throttle, alpha)

ClimbIter ==
    /\ nb.cell = "climb" /\ n < MaxClimb
    /\ SlipInRange(model)
    /\ DoStep(nb.throttle, nb.alpha)
    /\ nb' = [nb EXCEPT !.i = nb.i + 1]
    /\ UNCHANGED <<fresh, resets>>

ClimbReset ==
    /\ nb.cell = "climb" /\ n < MaxClimb
    /\ n > 0 /\ resets = 0
    /\ DoReset
    /\ nb' = [nb EXCEPT !.i = 0]
    /\ resets' = resets + 1
    /\ UNCHANGED fresh

ClimbNext == ClimbIter \/ ClimbReset

SpecClimb == ClimbInit /\ [][ClimbNext]_vars

\* Two calls of step on one Vehicle from two threads.  A thread can be
\* switched out between any two attribute accesses, so a call is a sequence
\* of atomic reads and writes of the state fields; the parameters never
\* change and are read along with them.  A thread t is at pc (1 before its
\* first read, Returned after its last write) and holds the values it has
\* read in r1 and r2 and its locals F_x, R_x, F_load and T_e, zeroed once
\* dead.
Returned == 19

NewThread(throttle, alpha) ==
    [pc |-> 1, throttle |-> throttle, alpha |-> alpha, r1 |-> 0, r2 |-> 0,
     F_x |-> 0, R_x |-> 0, F_load |-> 0, T_e |-> 0]

\* The write of self.x as an atomic increment: x is read again at the write.
WriteXAtomic(self, t) ==
    [self EXCEPT !.x = FAdd(self.x, FMul(t.r2, self.sample_time, PU))]

\* self.x = <the sum computed from the x and the v read before>
WriteX(self, t) ==
    [self EXCEPT !.x = FAdd(t.r1, FMul(t.r2, self.sample_time, PU))]

\* One atomic access of thread t on self: the pair of the object and the
\* thread after it.
Exec(self, t) ==
    LET to(pc) == [t EXCEPT !.pc = pc]
    IN  CASE t.pc = 1  -> <<self, [to(2) EXCEPT !.r1 = self.x]>>
          [] t.pc = 2  -> <<self, [to(3) EXCEPT !.r2 = self.v]>>
          [] t.pc = 3  -> <<WriteX(self, t), [to(4) EXCEPT !.r1 = 0, !.r2 = 0]>>
          [] t.pc = 4  -> <<self, [to(5) EXCEPT !.r1 = self.w_e]>>
          [] t.pc = 5  ->
               <<self, [to(6) EXCEPT
                          !.r1 = FSub(FMul(FMul(self.GR, t.r1, PU), self.r_e, PU),
                                      self.v)]>>
          [] t.pc = 6  ->
               LET F_x == FMul(self.c, FDiv(t.r1, self.v, KU), KU)
               IN  <<self, [to(7) EXCEPT
                              !.r1 = 0,
                              !.F_x = IF FGe(F_x, self.F_max) THEN self.F_max
                                      ELSE F_x]>>
          [] t.pc = 7  -> <<self, [to(8) EXCEPT !.R_x = FMul(self.c_r1, self.v, KU)]>>
          [] t.pc = 8  ->
               LET F_g    == FMul(FMul(self.m, self.g, PU), Sin(t.alpha), KU)
                   F_aero == FMul(self.c_a,
                                  FMul(self.v, self.v, KU * (KU \div PU)), PU)
               IN  <<self, [to(9) EXCEPT !.R_x = 0,
                                         !.F_load = FAdd(FAdd(F_aero, t.R_x), F_g)]>>
          [] t.pc = 9  -> <<self, [to(10) EXCEPT !.r1 = self.v]>>
          [] t.pc = 10 -> <<self, [to(11) EXCEPT !.r2 = self.a]>>
          [] t.pc = 11 ->
               <<[self EXCEPT !.v = FAdd(t.r1, FMul(t.r2, self.sample_time, PU))],
                 [to(12) EXCEPT !.r1 = 0, !.r2 = 0]>>
          [] t.pc = 12 ->
               <<[self EXCEPT !.a = FDiv(FSub(t.F_x, t.F_load), self.m, KU)],
                 [to(13) EXCEPT !.F_x = 0]>>
          [] t.pc = 13 ->
               <<self, [to(14) EXCEPT
                          !.r1 = FAdd(self.a_0, FMul(self.a_1, self.w_e, KU))]>>
          [] t.pc = 14 ->
               <<self, [to(15) EXCEPT
                          !.r1 = 0,
                          !.T_e = FMul(t.throttle,
                                       FAdd(t.r1,
                                            FMul(self.a_2,
                                                 FMul(self.w_e, self.w_e,
                                                      KU * (KU \div PU)), PU)),
                                       PU)]>>
          [] t.pc = 15 -> <<self, [to(16) EXCEPT !.r1 = self.w_e]>>
          [] t.pc = 16 -> <<self, [to(17) EXCEPT !.r2 = self.w_e_dot]>>
          [] t.pc = 17 ->
               <<[self EXCEPT !.w_e = FAdd(t.r1, FMul(t.r2, self.sample_time, PU))],
                 [to(18) EXCEPT !.r1 = 0, !.r2 = 0]>>
          [] t.pc = 18 ->
               <<[self EXCEPT
                    !.w_e_dot = FDiv(FSub(t.T_e,
                                          FMul(FMul(self.GR, self.r_e, PU), t.F_load,
                                               (PU * PU) \div KU)),
                                     self.J_e, PU)],
                 [to(Returned) EXCEPT !.F_load = 0, !.T_e = 0]>>

\* The inputs of the second call; the first is step(0.2, 0).
ThreadThrottles == {2 * (KU \div 10), 5 * (KU \div 10)}
ThreadInclines == {0, alpha_1}

\* The object is one that two steps have moved.  nb.t holds the two threads;
\* nb.stale records that a thread wrote x from a read made before the other
\* thread's write of x, nb.overlap that a thread ran while the other was
\* inside its call, nb.first which thread started first.
ThreadInit ==
    /\ model = StepFn(StepFn(NewVehicle, 2 * (KU \div 10), 0), 2 * (KU \div 10), 0)
    /\ raised = FALSE
    /\ last = [op |-> "init", throttle |-> 0, alpha |-> 0]
    /\ pre = model
    /\ n = 0
    /\ fresh = NewVehicle
    /\ resets = 0
    /\ \E throttle \in ThreadThrottles, alpha \in ThreadInclines :
          nb = [cell |-> "threads",
                t |-> <<NewThread(2 * (KU \div 10), 0), NewThread(throttle, alpha)>>,
                stale |-> FALSE, overlap |-> FALSE, first |-> 0]

ThreadStep(k) ==
    /\ nb.cell = "threads" /\ nb.t[k].pc < Returned
    /\ LET other == nb.t[3 - k]
           res   == Exec(model, nb.t[k])
       IN  /\ model' = res[1]
           /\ nb' = [nb EXCEPT
                       !.t[k] = res[2],
                       !.stale = nb.stale \/ (nb.t[k].pc = 3 /\ nb.t[k].r1 # model.x),
                       !.overlap = nb.overlap \/ (other.pc > 1 /\ other.pc < Returned),
                       !.first = IF nb.first = 0 THEN k ELSE nb.first]
    /\ last' = [op |-> "access", throttle |-> nb.t[k].throttle, alpha |-> nb.t[k].alpha]
    /\ n' = n + 1
    /\ UNCHANGED <<raised, pre, fresh, resets>>

ThreadNext == \E k \in {1, 2} : ThreadStep(k)

SpecThreads == ThreadInit /\ [][ThreadNext]_vars

\* The state fields the two calls leave when the call of thread k runs to
\* its end before the other starts.
Serial(k) ==
    LET t1 == nb.t[k]
        t2 == nb.t[3 - k]
    IN  StepFn(StepFn(pre, t1.throttle, t1.alpha), t2.throttle, t2.alpha)

SameState(p, q) == \A f \in StateFields : p[f] = q[f]

\* Two runs side by side: model and fresh are two Vehicles in one state,
\* stepped together.  Every call gives both the same throttle and incline
\* but one, the differing call, which gives them two throttles (nb.kind =
\* "throttle") or two inclines ("incline").  nb.k counts the calls from the
\* differing one on, itself included; it is 0 before it.
MaxDelayCalls == 5

\* A new Vehicle after k calls of step(0.2, 0).
RECURSIVE AfterSteps(_)
AfterSteps(k) ==
    IF k = 0 THEN NewVehicle ELSE StepFn(AfterSteps(k - 1), 2 * (KU \div 10), 0)

\* The runs start on a new Vehicle or on one that the constant-throttle
\* cell has stepped 10 or 20 times, where the tire force is below F_max.
DelayStarts == {NewVehicle, AfterSteps(10), AfterSteps(20)}

DelayThrottles == {2 * (KU \div 10), 8 * (KU \div 10)}
DelayInclines == {0, alpha_1}

\* The (throttle, incline) pairs of the calls both runs make alike.
DelayInputs ==
    { <<2 * (KU \div 10), 0>>, <<8 * (KU \div 10), alpha_1>>,
      <<2 * (KU \div 10), alpha_1>> }

DelayInit ==
    /\ model \in DelayStarts
    /\ fresh = model
    /\ raised = FALSE
    /\ last = [op |-> "init", throttle |-> 0, alpha |-> 0]
    /\ pre = model
    /\ n = 0
    /\ resets = 0
    /\ nb = [cell |-> "delay", kind |-> "none", k |-> 0]

\* Both runs call step with the same inputs.
DelayCommon(throttle, alpha) ==
    /\ nb.cell = "delay" /\ n < MaxDelayCalls
    /\ DoStep(throttle, alpha)
    /\ fresh' = CallStep(fresh, throttle, alpha)
    /\ nb' = [nb EXCEPT !.k = IF nb.k = 0 THEN 0 ELSE nb.k + 1]
    /\ UNCHANGED resets

\* The differing call: two throttles, one incline.
DelayThrottle(throttle, other, alpha) ==
    /\ nb.cell = "delay" /\ n < MaxDelayCalls
    /\ nb.k = 0 /\ throttle # other
    /\ DoStep(throttle, alpha)
    /\ fresh' = CallStep(fresh, other, alpha)
    /\ nb' = [nb EXCEPT !.kind = "throttle", !.k = 1]
    /\ UNCHANGED resets

\* The differing call: one throttle, two inclines.
DelayIncline(throttle, alpha, other) ==
    /\ nb.cell = "delay" /\ n < MaxDelayCalls
    /\ nb.k = 0 /\ alpha # other
    /\ DoStep(throttle, alpha)
    /\ fresh' = CallStep(fresh, throttle, other)
    /\ nb' = [nb EXCEPT !.kind = "incline", !.k = 1]
    /\ UNCHANGED resets

DelayNext ==
    \/ \E input \in DelayInputs : DelayCommon(input[1], input[2])
    \/ \E throttle \in DelayThrottles, other \in DelayThrottles,
          alpha \in DelayInclines :
          DelayThrottle(throttle, other, alpha)
    \/ \E throttle \in DelayThrottles, alpha \in DelayInclines,
          other \in DelayInclines :
          DelayIncline(throttle, alpha, other)

SpecDelay == DelayInit /\ [][DelayNext]_vars

----------------------------------------------------------------------------
(* Properties *)

ParamNames ==
    {"a_0", "a_1", "a_2", "GR", "r_e", "J_e", "m", "g", "c_a", "c_r1", "c", "F_max",
     "sample_time"}

\* C1: reset, after any sequence of step and reset calls, leaves the state
\* exactly x = 0, v = 5, a = 0, w_e = 100, w_e_dot = 0, whatever came before.
C1_ResetRestoresDefaults ==
    last.op = "reset" =>
        /\ model.x = 0 /\ model.v = 5 * KU /\ model.a = 0
        /\ model.w_e = 100 * KU /\ model.w_e_dot = 0

\* A reset of an object that two steps had moved off every default.
C1_Witness ==
    /\ last.op = "reset" /\ n >= 3
    /\ pre.x > 0 /\ pre.v # 5 * KU /\ pre.a # 0 /\ pre.w_e # 100 * KU /\ pre.w_e_dot # 0

\* C2: a step whose pre-state has c*s >= F_max commits the acceleration
\* (F_max - F_load)/m: the tire force it used is F_max, not c*s.
C2_TireForceClamp ==
    (last.op = "step" /\ ~raised
       /\ FGe(FMul(pre.c, SlipRatio(pre), KU), pre.F_max))
    => model.a = FDiv(FSub(pre.F_max, LoadForce(pre, last.alpha)), pre.m, KU)

\* A step taken with c*s strictly above F_max: the clamp changed the force.
C2_Witness ==
    /\ last.op = "step" /\ ~raised
    /\ IsFin(SlipRatio(pre))
    /\ FMul(pre.c, SlipRatio(pre), KU) > pre.F_max
    /\ model.a = FDiv(FSub(pre.F_max, LoadForce(pre, last.alpha)), pre.m, KU)

\* C3 as amended: over the first FirstSteps steps of the free-test cell
\* (reset, then step(0, 0)) the velocity never decreases: the first step
\* leaves it at 5 and every later one raises it.
FirstSteps == 10

C3_VelocityRises ==
    (nb.cell = "free" /\ last.op = "step" /\ nb.i <= FirstSteps)
    => /\ model.v >= pre.v
       /\ (nb.i = 1 => model.v = 5 * KU)
       /\ (nb.i >= 2 => model.v > pre.v)

C3_Witness ==
    /\ nb.cell = "free" /\ last.op = "step" /\ nb.i = FirstSteps
    /\ last.throttle = 0 /\ last.alpha = 0
    /\ model.v > 5 * KU

\* C3 as stated: over those steps the velocity after a step is never
\* greater than before it.
C3_Original ==
    (nb.cell = "free" /\ last.op = "step" /\ nb.i <= FirstSteps)
    => model.v <= pre.v

\* C4: in the constant-throttle cell the velocity recorded at index 8000,
\* which the cell prints, is the notebook's 23.99004676 to within 0.0001.
RefV == 23990047

C4_ReferenceVelocity ==
    nb.cell = "const" =>
        /\ (nb.i > ConstIndex => Abs(nb.sample - RefV) <= KU \div 10000)
        /\ (nb.pc = "done" => nb.printed = nb.sample)

C4_Witness ==
    /\ nb.cell = "const" /\ nb.pc = "done" /\ n = ArangeLen(ConstEnd)
    /\ Abs(nb.printed - 2399 * (KU \div 100)) <= KU \div 200

\* C5: in the ramp cell the throttle passed to step at sample index 100
\* (t = 1.0 s), which the cell prints, is 0.26.
C5_RampThrottleAtOneSecond ==
    nb.cell = "ramp" =>
        /\ (nb.i = RampIndex + 1 => last.op = "step" /\ last.throttle = 26 * (KU \div 100))
        /\ (nb.i > RampIndex => nb.sample = 26 * (KU \div 100))
        /\ (nb.pc = "done" => nb.printed = 26 * (KU \div 100))

C5_Witness ==
    /\ nb.cell = "ramp" /\ nb.i = RampIndex + 1 /\ last.op = "step"
    /\ TData(RampIndex) = KU

\* C6: a new Vehicle has x = 0, v = 5, a = 0, w_e = 100, w_e_dot = 0 and
\* sample time 0.01, and from a reset on the object equals, after every
\* step, a Vehicle constructed at the reset and given the same inputs.
C6_ResetIsNew ==
    /\ n = 0 => /\ model.x = 0 /\ model.v = 5 * KU /\ model.a = 0
                /\ model.w_e = 100 * KU /\ model.w_e_dot = 0
                /\ model.sample_time = PU \div 100
    /\ resets > 0 => model = fresh

\* Steps, a reset, and two steps more.
C6_Witness ==
    /\ resets > 0 /\ last.op = "step" /\ n > resets + 2
    /\ pre.a # 0 /\ model = fresh /\ model.v # 5 * KU

\* C7 as amended: a step at v = 0 raises nothing; the slip ratio is +inf,
\* nan or -inf as w_e is positive, zero or negative.  With w_e <= 0 it goes
\* into the tire force and the acceleration the step commits, into v at the
\* next step and from there into x, a and w_e_dot at every later one.  With
\* w_e > 0 the clamp replaces the infinite tire force by F_max and the
\* acceleration committed is the finite (F_max - F_load)/m.
C7_ZeroVelocity ==
    /\ ~raised
    /\ (last.op = "step" /\ pre.v = 0) =>
          /\ FGt(pre.w_e, 0) =>
                /\ IsFin(model.a)
                /\ model.a = FDiv(FSub(pre.F_max, LoadForce(pre, last.alpha)), pre.m, KU)
          /\ pre.w_e = 0 => IsNaN(model.a)
          /\ FLt(pre.w_e, 0) => model.a = NegInf
          /\ IsNaN(pre.w_e) => IsNaN(model.a)
    /\ (last.op = "step" /\ ~IsFin(pre.a)) => ~IsFin(model.v)
    /\ (last.op = "step" /\ ~IsFin(pre.v)) =>
          /\ ~IsFin(model.v) /\ ~IsFin(model.x)
          /\ ~IsFin(model.a) /\ ~IsFin(model.w_e_dot)

\* Three steps on from v = 0 with the engine stopped or reversed.
C7_Witness ==
    /\ last.op = "step" /\ ~raised /\ n >= 3
    /\ ~IsFin(pre.v) /\ ~IsFin(model.v) /\ ~IsFin(model.x) /\ ~IsFin(model.a)

\* C7 as stated: every step at v = 0 commits a non-finite acceleration.
C7_Original ==
    (last.op = "step" /\ pre.v = 0) => (~raised /\ ~IsFin(model.a))

\* C8: every parameter and the sample time keep the value construction
\* gave them; step and reset write x, v, a, w_e and w_e_dot only.
C8_ParametersUntouched ==
    /\ DOMAIN model = ParamNames \cup StateFields \cup {"np"}
    /\ \A f \in ParamNames : model[f] = NewVehicle[f] /\ model[f] = pre[f]
    /\ model.np \subseteq StateFields

C8_Witness ==
    /\ last.op = "step" /\ resets > 0 /\ n > resets + 1
    /\ \A f \in StateFields : model[f] # pre[f]

\* C9: no call of step or reset raises, so that no reachable state is
\* terminal (the calls have no other guard than the bound on their number);
\* every call of step, with throttle 1.5 as with the others, commits a new
\* state; and the throttle is used as given, not clamped: the torque in the
\* committed w_e_dot is throttle times the torque map at full throttle.
C9_StepAlwaysCompletes ==
    /\ ~raised
    /\ last.op = "step" =>
          /\ last.throttle \in Throttles /\ last.alpha \in Inclines
          /\ model.x = FAdd(pre.x, FMul(pre.v, pre.sample_time, PU))
          /\ model.v = FAdd(pre.v, FMul(pre.a, pre.sample_time, PU))
          /\ model.w_e_dot =
               FDiv(FSub(FMul(last.throttle, EngineTorque(pre, KU), KU),
                         FMul(FMul(pre.GR, pre.r_e, PU), LoadForce(pre, last.alpha),
                              (PU * PU) \div KU)),
                    pre.J_e, PU)

\* A step with throttle 1.5 after at least one other call.
C9_Witness ==
    /\ last.op = "step" /\ last.throttle > KU /\ n >= 2 /\ ~raised
    /\ model.w_e_dot > pre.w_e_dot

\* C11: the tire force a step uses is c*s when |s| < 1 and F_max otherwise,
\* F_max also when s <= -1 (the rule of the notebook's tire equations), so
\* that the acceleration committed is that force less the load, over m.
C11_AbsSlipRule ==
    (last.op = "step" /\ ~raised /\ IsFin(SlipRatio(pre))
       /\ pre.F_max = NewVehicle.F_max)
    => model.a =
         FDiv(FSub(IF Abs(SlipRatio(pre)) < KU
                       THEN FMul(pre.c, SlipRatio(pre), KU)
                       ELSE pre.F_max,
                   LoadForce(pre, last.alpha)),
              pre.m, KU)

\* C12: a step commits x + v*dt, v + a*dt and w_e + w_e_dot*dt of its
\* pre-state, and these three are the same whatever throttle and incline
\* the call is given.
C12_LaggedIntegration ==
    (last.op = "step" /\ ~raised) =>
        /\ model.x = FAdd(pre.x, FMul(pre.v, pre.sample_time, PU))
        /\ model.v = FAdd(pre.v, FMul(pre.a, pre.sample_time, PU))
        /\ model.w_e = FAdd(pre.w_e, FMul(pre.w_e_dot, pre.sample_time, PU))
        /\ \A throttle \in Throttles, alpha \in Inclines :
              LET other == CallStep(pre, throttle, alpha)
              IN  other.x = model.x /\ other.v = model.v /\ other.w_e = model.w_e

\* A step from moving derivatives whose inputs do change what it commits
\* for a and w_e_dot.
C12_Witness ==
    /\ last.op = "step" /\ ~raised
    /\ pre.a # 0 /\ pre.w_e_dot # 0
    /\ model.x # pre.x /\ model.v # pre.v /\ model.w_e # pre.w_e
    /\ \E throttle \in Throttles, alpha \in Inclines :
          LET other == CallStep(pre, throttle, alpha)
          IN  other.a # model.a /\ other.w_e_dot # model.w_e_dot

\* The state a step would read if it read the velocity and the engine
\* speed after integrating them: the pre-state with the committed v and w_e.
Integrated(before, after) == [before EXCEPT !.v = after.v, !.w_e = after.w_e]

C14_IntegrateFirst ==
    (last.op = "step" /\ ~raised) =>
        LET cur    == Integrated(pre, model)
            F_load == LoadForce(cur, last.alpha)
        IN  /\ model.a = FDiv(FSub(TireForce(cur), F_load), pre.m, KU)
            /\ model.w_e_dot =
                 FDiv(FSub(EngineTorque(cur, last.throttle),
                           FMul(FMul(pre.GR, pre.r_e, PU), F_load, (PU * PU) \div KU)),
                      pre.J_e, PU)

C16_VelocitySign ==
    nb.cell = "climb" =>
        /\ nb.alpha <= alpha_2 => model.v >= 5 * KU
        /\ last.op = "reset" => model.v = 5 * KU
        /\ FLt(model.v, 0) => nb.alpha = KU /\ nb.i >= 67
        /\ (nb.alpha = KU /\ nb.i >= 81) => FLt(model.v, 0)

\* The velocity is negative after steps on the 1 rad incline, with each of
\* the throttles.
C16_Witness ==
    /\ nb.cell = "climb" /\ last.op = "step" /\ ~raised
    /\ model.v < 0 /\ pre.v >= 0
    /\ nb.alpha = KU /\ nb.throttle = KU

\* C16 as stated: v >= 0 in every state reached from the defaults by steps
\* with throttle in [0, 1] and any incline, and by reset.
C16_Original ==
    nb.cell = "climb" => FGe(model.v, 0)

\* C17: two concurrent calls of step are not atomic.  When both have
\* returned: if neither ran while the other was inside its call, the state
\* is the serial one; if a thread wrote x from a read of x that the other
\* thread's write had outdated, one position update is lost (x is the
\* initial x plus one v*dt) and the state is that of neither serial order.
C17_NotAtomic ==
    (nb.cell = "threads" /\ nb.t[1].pc = Returned /\ nb.t[2].pc = Returned) =>
        /\ ~nb.overlap => SameState(model, Serial(nb.first))
        /\ nb.stale =>
              /\ model.x \in
                   { FAdd(pre.x, FMul(pre.v, pre.sample_time, PU)),
                     FAdd(pre.x,
                          FMul(FAdd(pre.v, FMul(pre.a, pre.sample_time, PU)),
                               pre.sample_time, PU)) }
              /\ ~SameState(model, Serial(1))
              /\ ~SameState(model, Serial(2))

\* Both calls have returned, the position has advanced by one v*dt only,
\* and the state is that of neither serial order.
C17_Witness ==
    /\ nb.cell = "threads" /\ nb.t[1].pc = Returned /\ nb.t[2].pc = Returned
    /\ nb.stale
    /\ model.x = FAdd(pre.x, FMul(pre.v, pre.sample_time, PU))
    /\ model.x # Serial(1).x /\ model.x # Serial(2).x
    /\ ~SameState(model, Serial(1)) /\ ~SameState(model, Serial(2))

\* C18: in the ramp cell the incline passed to every step is atan(3/60)
\* when the position before the step is at most sqrt(60^2+3^2), atan(9/90)
\* when it is beyond that and below sqrt(60^2+3^2)+sqrt(90^2+9^2), and 0
\* from there on: some branch assigns alpha at every sample.
C18_RampInclineTotal ==
    (nb.cell = "ramp" /\ last.op = "step") =>
        /\ IsFin(pre.x)
        /\ last.alpha = (IF pre.x <= Ramp1 THEN alpha_1
                         ELSE IF pre.x < Ramp1 + Ramp2 THEN alpha_2
                         ELSE 0)
        /\ nb.alpha = last.alpha

\* The first step past the second ramp: the incline was atan(9/90) at the
\* sample before and is 0 now.
C18_Witness ==
    /\ nb.cell = "ramp" /\ last.op = "step"
    /\ pre.x >= Ramp1 + Ramp2 /\ last.alpha = 0
    /\ pre.x - FMul(pre.v, pre.sample_time, PU) < Ramp1 + Ramp2
    /\ alpha_1 > 0 /\ alpha_2 > alpha_1

\* step with the time increment negated: the same update rule run backward.
Backward(self, throttle, alpha) ==
    [StepFn([self EXCEPT !.sample_time = -self.sample_time], throttle, alpha)
       EXCEPT !.sample_time = self.sample_time]

\* C19: step is not undone by the same rule run with -dt: after every step
\* of every call sequence, the backward step from the state it left, with
\* the same inputs, gives a state other than the one the step started from.
C19_NotReversible ==
    (last.op = "step" /\ ~raised) =>
        ~SameState(Backward(model, last.throttle, last.alpha), pre)

\* A step from moving derivatives whose backward step misses the position,
\* the velocity and the engine speed it started from.
C19_Witness ==
    /\ last.op = "step" /\ ~raised /\ pre.a # 0 /\ pre.w_e_dot # 0
    /\ LET back == Backward(model, last.throttle, last.alpha)
       IN  /\ back.x # pre.x /\ back.v # pre.v /\ back.w_e # pre.w_e
           /\ back.x = FSub(model.x, FMul(model.v, model.sample_time, PU))

\* The state fields as construction and reset leave them.
IsDefault(self) ==
    /\ self.x = 0 /\ self.v = 5 * KU /\ self.a = 0
    /\ self.w_e = 100 * KU /\ self.w_e_dot = 0

\* C20: the first step after construction or reset leaves v = 5 and
\* w_e = 100 and sets x = 0.05, whatever its inputs; on a level road it
\* commits a = 4.982975 for every throttle and
\* w_e_dot = (408*throttle - 3.57525)/10.
C20_FirstStep ==
    (last.op = "step" /\ ~raised /\ IsDefault(pre)) =>
        /\ model.v = 5 * KU /\ model.w_e = 100 * KU /\ model.x = 5 * (KU \div 100)
        /\ last.alpha = 0 =>
              /\ model.a = 4982975
              /\ 10 * model.w_e_dot = 408 * last.throttle - 3575250

\* The first step after a reset that followed other steps, at throttle 1.5
\* on a level road.
C20_Witness ==
    /\ last.op = "step" /\ ~raised /\ IsDefault(pre)
    /\ resets > 0 /\ n >= 3
    /\ last.alpha = 0 /\ last.throttle = 15 * (KU \div 10)
    /\ model.a = 4982975 /\ model.w_e_dot = 60842475

\* C21: two runs from one state whose inputs differ in one call only.
\* Before that call the runs are equal.  When the call differs in its
\* throttle: after it the runs differ at most in w_e_dot, a is still equal
\* after the next call, v after the one after that and x after a third.
\* When it differs in its incline, x is equal after it and after the next
\* call.
C21_InputDelay ==
    nb.cell = "delay" =>
        /\ nb.k = 0 => model = fresh
        /\ (nb.kind = "throttle" /\ nb.k = 1) =>
              \A f \in StateFields \ {"w_e_dot"} : model[f] = fresh[f]
        /\ (nb.kind = "throttle" /\ nb.k >= 1 /\ nb.k <= 2) => model.a = fresh.a
        /\ (nb.kind = "throttle" /\ nb.k >= 1 /\ nb.k <= 3) => model.v = fresh.v
        /\ (nb.kind = "throttle" /\ nb.k >= 1 /\ nb.k <= 4) => model.x = fresh.x
        /\ (nb.kind = "incline" /\ nb.k >= 1 /\ nb.k <= 2) => model.x = fresh.x

\* The fifth call from one that differed in its throttle: the difference,
\* in w_e_dot alone after that call, has reached w_e, a, v and now x.
C21_Witness ==
    /\ nb.cell = "delay" /\ nb.kind = "throttle" /\ nb.k = 5
    /\ model.w_e_dot # fresh.w_e_dot /\ model.w_e # fresh.w_e
    /\ model.a # fresh.a /\ model.v # fresh.v /\ model.x # fresh.x
    /\ pre.x # model.x /\ ~raised

====
